---- MODULE Spec2Model ----
(***************************************************************************)
(* Model of DrPyser/python-multimethods: the multiple-dispatch registry    *)
(* and engine of multimethods.py and the pattern substrate of patmat.py.   *)
(*                                                                         *)
(* Python values are records [kind, n, items, attrs]; the outcome of a     *)
(* Python expression is a record [st, exc, val] that either carries the    *)
(* value ("ok") or the class name of the exception it raised ("raise").    *)
(***************************************************************************)
EXTENDS Integers, Sequences, FiniteSets, TLC

VARIABLES methods, log, last

vars == <<methods, log, last>>

----------------------------------------------------------------------------
(* Bounds *)

\* number of add_method calls made on the generic function
MaxRegs == 3
\* number of positional arguments in one call
MaxArgs == 2
\* number of subpatterns / keys / attribute names given to one pattern
MaxSubs == 2

RECURSIVE SeqsOfLen(_, _)
SeqsOfLen(S, n) ==
    IF n = 0 THEN {<<>>}
    ELSE {Append(s, x) : s \in SeqsOfLen(S, n - 1), x \in S}

SeqsUpTo(S, n) == UNION {SeqsOfLen(S, k) : k \in 0..n}

----------------------------------------------------------------------------
(* Python values *)

NoneV == [kind |-> "none", n |-> 0, items |-> {}, attrs |-> {}]
IntV(i) == [kind |-> "int", n |-> i, items |-> {}, attrs |-> {}]
BoolV(b) == [kind |-> "bool", n |-> IF b THEN 1 ELSE 0, items |-> {}, attrs |-> {}]
\* items: set of <<key, int>>; a list or tuple of length L has keys 0..L-1
DictV(its) == [kind |-> "dict", n |-> 0, items |-> its, attrs |-> {}]
ListV(its) == [kind |-> "list", n |-> 0, items |-> its, attrs |-> {}]
TupleV(its) == [kind |-> "tuple", n |-> 0, items |-> its, attrs |-> {}]
\* attrs: set of <<name, int>>, the instance attributes of a plain object
ObjV(ats) == [kind |-> "object", n |-> 0, items |-> {}, attrs |-> ats]

\* bool(x)
Truthy(x) ==
    CASE x.kind \in {"int", "bool"} -> x.n # 0
      [] x.kind \in {"dict", "list", "tuple"} -> x.items # {}
      [] x.kind = "none" -> FALSE
      [] OTHER -> TRUE

\* isinstance(x, t) for the builtin classes int, dict, list (bool is a subclass of int)
isinstance(x, t) == x.kind = t \/ (t = "int" /\ x.kind = "bool")

\* x == i for an int i
PyEqInt(x, i) == x.kind \in {"int", "bool"} /\ x.n = i

Ok(v) == [st |-> "ok", exc |-> "none", val |-> v]
Raise(e) == [st |-> "raise", exc |-> e, val |-> NoneV]

ItemAt(x, k) == (CHOOSE it \in x.items : it[1] = k)[2]

\* x[k]
getitem(x, k) ==
    IF x.kind = "dict"
    THEN IF \E it \in x.items : it[1] = k
         THEN Ok(IntV(ItemAt(x, k))) ELSE Raise("KeyError")
    ELSE IF x.kind \in {"list", "tuple"}
    THEN LET L == Cardinality(x.items) IN
         IF -L <= k /\ k < L
         THEN Ok(IntV(ItemAt(x, IF k < 0 THEN k + L ELSE k)))
         ELSE Raise("IndexError")
    ELSE Raise("TypeError")

\* getattr(x, name)
getattr(x, name) ==
    IF \E a \in x.attrs : a[1] = name
    THEN Ok(IntV((CHOOSE a \in x.attrs : a[1] = name)[2]))
    ELSE Raise("AttributeError")

----------------------------------------------------------------------------
(* patmat.py: the pattern substrate *)

\* a pattern object: its class, its constructor arguments and its identity id;
\* the constructors below give id 0, At(p, i) is the object built by one
\* particular constructor call, told apart from every other object by i
Pat(cls, n, ty, ks, names, subs) ==
    [cls |-> cls, n |-> n, ty |-> ty, ks |-> ks, names |-> names, subs |-> subs,
     id |-> 0]

At(p, i) == [p EXCEPT !.id = i]

Key(k) == Pat("patmat.Key", k, "", <<>>, <<>>, <<>>)
Keys(ks) == Pat("patmat.Keys", 0, "", ks, <<>>, <<>>)
Attr(a) == Pat("patmat.Attr", 0, a, <<>>, <<>>, <<>>)
Attrs(as) == Pat("patmat.Attrs", 0, "", <<>>, as, <<>>)
Equal(v) == Pat("patmat.Equal", v, "", <<>>, <<>>, <<>>)
Type(t) == Pat("patmat.Type", 0, t, <<>>, <<>>, <<>>)
OneOf(ps) == Pat("patmat.OneOf", 0, "", <<>>, <<>>, ps)
\* the class Type of multimethods.py, whose __match__ returns a bool
mmType(t) == Pat("multimethods.Type", 0, t, <<>>, <<>>, <<>>)

\* the context manager match_except(*exceptions) around an outcome r
match_except(exceptions, r) ==
    IF r.st = "raise" /\ r.exc \in exceptions THEN Raise("MatchFailure") ELSE r

RECURSIVE KeysTuple(_, _, _, _)
\* tuple(x[k] for k in ks): the first failing lookup raises
KeysTuple(x, ks, i, acc) ==
    IF i > Len(ks) THEN Ok(TupleV(acc))
    ELSE LET r == getitem(x, ks[i]) IN
         IF r.st = "raise" THEN r
         ELSE KeysTuple(x, ks, i + 1, acc \cup {<<i - 1, r.val.n>>})

RECURSIVE AttrsTuple(_, _, _, _)
\* tuple(getattr(x, attr) for attr in names)
AttrsTuple(x, names, i, acc) ==
    IF i > Len(names) THEN Ok(TupleV(acc))
    ELSE LET r == getattr(x, names[i]) IN
         IF r.st = "raise" THEN r
         ELSE AttrsTuple(x, names, i + 1, acc \cup {<<i - 1, r.val.n>>})

Key_match(p, x) == match_except({"KeyError", "TypeError"}, getitem(x, p.n))

Keys_match(p, x) ==
    match_except({"KeyError", "TypeError"}, KeysTuple(x, p.ks, 1, {}))

Attr_match(p, x) == match_except({"AttributeError"}, getattr(x, p.ty))

Attrs_match(p, x) ==
    match_except({"AttributeError"}, AttrsTuple(x, p.names, 1, {}))

\* the decorator predicate_method: b is the decorated function's return value
predicate_method(b, arg) == IF b THEN Ok(arg) ELSE Raise("MatchFailure")

Equal_match(p, x) == predicate_method(PyEqInt(x, p.n), x)

Type_match(p, x) == predicate_method(isinstance(x, p.ty), x)

\* len(tuple((partial(ismatch, x), self.predicates))) == 1
OneOf_match(p, x) == predicate_method(Len(<<x, p.subs>>) = 1, x)

\* multimethods.Type.__match__
mmType_match(p, x) == Ok(BoolV(isinstance(x, p.ty)))

\* pattern.__match__(x), by the class of the pattern
Match(p, x) ==
    CASE p.cls = "patmat.Key" -> Key_match(p, x)
      [] p.cls = "patmat.Keys" -> Keys_match(p, x)
      [] p.cls = "patmat.Attr" -> Attr_match(p, x)
      [] p.cls = "patmat.Attrs" -> Attrs_match(p, x)
      [] p.cls = "patmat.Equal" -> Equal_match(p, x)
      [] p.cls = "patmat.Type" -> Type_match(p, x)
      [] p.cls = "patmat.OneOf" -> OneOf_match(p, x)
      [] p.cls = "multimethods.Type" -> mmType_match(p, x)

\* patmat.ismatch: True if the pattern matches, False on MatchFailure;
\* any other exception propagates
patmat_ismatch(value, pattern) ==
    LET r == Match(pattern, value) IN
    IF r.st = "ok" THEN Ok(BoolV(TRUE))
    ELSE IF r.exc = "MatchFailure" THEN Ok(BoolV(FALSE))
    ELSE r

----------------------------------------------------------------------------
(* multimethods.py: the registry and the dispatch engine *)

\* dispatcher.__name__ of the declaring callable
GenericName == "generic"

\* ..basics.identity
identity(x) == x

\* the declaring callable, invoked on the call's arguments: it returns None
\* and dispatch falls back on identity, so spec tokens are the patterns
_dispatch(args, kwargs) == "None"

\* dispatcher = self._dispatch(*args, **kwargs), replaced by identity when it
\* is None, applied to a spec token p
dispatcher(args, kwargs, p) ==
    IF _dispatch(args, kwargs) = "None" THEN identity(p) ELSE p

\* multimethods.ismatch: the raw result of predicate.__match__(value)
ismatch(value, predicate) == Match(predicate, value)

\* rank of a keyword name in Python's string order
NameRank(s) == CASE s = "j" -> 1 [] s = "k" -> 2

RECURSIVE InsertItem(_, _)
InsertItem(it, s) ==
    IF s = <<>> THEN <<it>>
    ELSE IF NameRank(it[1]) < NameRank(Head(s)[1]) THEN <<it>> \o s
    ELSE <<Head(s)>> \o InsertItem(it, Tail(s))

RECURSIVE sorted(_)
\* tuple(sorted(kwspecs.items())): items is the dict's items in insertion
\* order, the names are distinct so the order is decided by the name
sorted(items) ==
    IF items = <<>> THEN <<>>
    ELSE InsertItem(items[Len(items)], sorted(SubSeq(items, 1, Len(items) - 1)))

\* a == b for two spec tokens: the pattern classes define neither __eq__ nor
\* __hash__, so two tokens are equal only when they are the same object
token_eq(a, b) == a.id = b.id

\* a == b for two tuples of spec tokens
specs_eq(a, b) ==
    Len(a) = Len(b) /\ \A i \in 1..Len(a) : token_eq(a[i], b[i])

\* a == b for two sorted tuples of (name, spec token) pairs
kwspecs_eq(a, b) ==
    /\ Len(a) = Len(b)
    /\ \A i \in 1..Len(a) : a[i][1] = b[i][1] /\ token_eq(a[i][2], b[i][2])

\* a == b for two registry keys (specs, kwspecs), as the dict compares them
key_eq(a, b) == specs_eq(a[1], b[1]) /\ kwspecs_eq(a[2], b[2])

\* a dict assignment that deletes the old entry and appends the new one
OrderedDict_setitem_moving(d, key, value) ==
    Append(SelectSeq(d, LAMBDA e : ~key_eq(e.key, key)), [key |-> key, value |-> value])

\* OrderedDict.__setitem__: d is the sequence of [key, value] in iteration
\* order; an assignment under a present key keeps the stored key object and
\* its position
OrderedDict_setitem(d, key, value) ==
    IF \E i \in 1..Len(d) : key_eq(d[i].key, key)
    THEN [i \in 1..Len(d) |->
            IF key_eq(d[i].key, key) THEN [key |-> d[i].key, value |-> value]
            ELSE d[i]]
    ELSE Append(d, [key |-> key, value |-> value])

\* multimethod.add_method
add_method(ms, specs, kwspecs, method) ==
    OrderedDict_setitem(ms, <<specs, sorted(kwspecs)>>, method)

\* equality of a stored key (specs, kwspecs) with the argument of get_method:
\* a tuple of spec tokens (shape "specs") equals a key only if it has two
\* elements that are themselves the two tuples, and a token is never a tuple
KeyEquals(key, q) ==
    IF q.shape = "key" THEN key_eq(key, <<q.specs, q.kwspecs>>) ELSE FALSE

\* multimethod.get_method: self._methods.get(specs); 0 stands for None
get_method(ms, q) ==
    IF \E i \in 1..Len(ms) : KeyEquals(ms[i].key, q)
    THEN ms[CHOOSE i \in 1..Len(ms) : KeyEquals(ms[i].key, q)].value
    ELSE 0

HasKw(kwargs, k) == \E it \in kwargs : it[1] = k
KwVal(kwargs, k) == (CHOOSE it \in kwargs : it[1] = k)[2]

RECURSIVE all_zip(_, _, _, _)
\* all(ismatch(arg, dispatcher(p)) for (arg, p) in zip(args, specs))
all_zip(args, kwargs, specs, i) ==
    IF i > Len(args) \/ i > Len(specs) THEN Ok(BoolV(TRUE))
    ELSE LET r == ismatch(args[i], dispatcher(args, kwargs, specs[i])) IN
         IF r.st = "raise" THEN r
         ELSE IF ~Truthy(r.val) THEN Ok(BoolV(FALSE))
         ELSE all_zip(args, kwargs, specs, i + 1)

RECURSIVE all_kw(_, _, _, _)
\* all(ismatch(kwargs[k], dispatcher(p)) for k, p in kwspecs)
all_kw(args, kwargs, kwspecs, i) ==
    IF i > Len(kwspecs) THEN Ok(BoolV(TRUE))
    ELSE IF ~HasKw(kwargs, kwspecs[i][1]) THEN Raise("KeyError")
    ELSE LET r == ismatch(KwVal(kwargs, kwspecs[i][1]),
                          dispatcher(args, kwargs, kwspecs[i][2])) IN
         IF r.st = "raise" THEN r
         ELSE IF ~Truthy(r.val) THEN Ok(BoolV(FALSE))
         ELSE all_kw(args, kwargs, kwspecs, i + 1)

\* the condition of the if in the loop of dispatch: all(...) and all(...)
entry_cond(key, args, kwargs) ==
    LET a == all_zip(args, kwargs, key[1], 1) IN
    IF a.st = "raise" THEN a
    ELSE IF ~Truthy(a.val) THEN a
    ELSE all_kw(args, kwargs, key[2], 1)

CallResult(st, exc, impl, args, kwargs, generic) ==
    [st |-> st, exc |-> exc, impl |-> impl, args |-> args, kwargs |-> kwargs,
     generic |-> generic]

\* DispatchFailure(self, args, kwargs)
DispatchFailure(args, kwargs) ==
    CallResult("raise", "DispatchFailure", 0, args, kwargs, GenericName)

RECURSIVE dispatch_loop(_, _, _, _)
\* the for ... else of dispatch from entry i on: the selected method, or the
\* exception that leaves dispatch
dispatch_loop(ms, i, args, kwargs) ==
    IF i > Len(ms) THEN DispatchFailure(args, kwargs)
    ELSE LET c == entry_cond(ms[i].key, args, kwargs) IN
         IF c.st = "raise" THEN CallResult("raise", c.exc, 0, <<>>, {}, "")
         ELSE IF Truthy(c.val)
         THEN CallResult("method", "none", ms[i].value, <<>>, {}, "")
         ELSE dispatch_loop(ms, i + 1, args, kwargs)

\* multimethod.dispatch
dispatch(ms, args, kwargs) == dispatch_loop(ms, 1, args, kwargs)

\* multimethod.__call__: the implementation is an uninterpreted function,
\* its result records which implementation ran and on which arguments
call(ms, args, kwargs) ==
    LET m == dispatch(ms, args, kwargs) IN
    IF m.st = "raise" THEN m
    ELSE CallResult("return", "none", m.impl, args, kwargs, "")

----------------------------------------------------------------------------
(* Inputs *)

\* the token objects of the program: tEq0 and tEq0b are two objects built by
\* two calls Equal(0)
tInt == At(mmType("int"), 1)
tEq0 == At(Equal(0), 2)
tEq0b == At(Equal(0), 3)
tKey0 == At(Key(0), 4)

kwKJ == <<<<"k", tInt>>, <<"j", tInt>>>>
kwJK == <<<<"j", tInt>>, <<"k", tInt>>>>

\* (specs, kwspecs) given to the decorator method(generic, *specs, **kwspecs)
RegInputs ==
    ({<<tEq0>>, <<tEq0b>>, <<tKey0>>, <<tInt, tInt>>} \X {<<>>})
        \cup ({<<tInt>>} \X {kwKJ, kwJK})

\* arguments of get_method: the positional-spec tuples and the full keys of
\* these registrations
GetInputs ==
    {[shape |-> "specs", specs |-> r[1], kwspecs |-> <<>>] : r \in RegInputs}
        \cup {[shape |-> "key", specs |-> r[1], kwspecs |-> sorted(r[2])] :
                 r \in RegInputs}

CallValues == {IntV(0), DictV({<<0, 1>>})}

ArgsInputs == SeqsUpTo(CallValues, MaxArgs)

KwargsInputs ==
    {{}, {<<"j", IntV(1)>>, <<"k", IntV(1)>>},
     {<<"j", IntV(1)>>, <<"k", DictV({<<0, 1>>})>>}}

PatValues ==
    {IntV(0), IntV(1), DictV({<<0, 1>>}), DictV({}), ListV({<<0, 1>>}),
     ListV({}), ObjV({<<"a", 1>>}), ObjV({})}

KeyInputs == {0 - 1, 0, 2}
AttrNames == {"a", "b"}
SimplePreds == {Equal(0), Equal(1), Type("int")}

PatInputs ==
    {Key(k) : k \in KeyInputs}
        \cup {Keys(ks) : ks \in SeqsUpTo(KeyInputs, MaxSubs)}
        \cup {Attr(a) : a \in AttrNames}
        \cup {Attrs(as) : as \in SeqsUpTo(AttrNames, MaxSubs)}
        \cup SimplePreds \cup {Type("dict")}
        \cup {OneOf(ps) : ps \in SeqsUpTo(SimplePreds, MaxSubs)}

----------------------------------------------------------------------------
(* The generic function as a state machine *)

Init ==
    /\ methods = <<>>
    /\ log = <<>>
    /\ last = [op |-> "init"]

\* @method(generic, *specs, **kwspecs) applied to a newly defined function,
\* identified by the number of the registration
AddMethod ==
    /\ Len(log) < MaxRegs
    /\ \E r \in RegInputs :
         LET impl == Len(log) + 1 IN
         /\ methods' = add_method(methods, r[1], r[2], impl)
         /\ log' = Append(log, [specs |-> r[1], kwspecs |-> r[2], method |-> impl])
         /\ last' = [op |-> "add", specs |-> r[1], kwspecs |-> r[2], method |-> impl]

\* generic(*args, **kwargs)
Call ==
    \E args \in ArgsInputs, kwargs \in KwargsInputs :
        /\ last' = [op |-> "call", args |-> args, kwargs |-> kwargs,
                    res |-> call(methods, args, kwargs)]
        /\ UNCHANGED <<methods, log>>

\* generic.get_method(specs), on a tuple of spec tokens or on a full key
GetMethod ==
    /\ \E q \in GetInputs :
         last' = [op |-> "get", q |-> q, res |-> get_method(methods, q)]
    /\ UNCHANGED <<methods, log>>

Next == AddMethod \/ Call \/ GetMethod

Spec == Init /\ [][Next]_vars

\* pattern.__match__(value) on its own
MatchStep ==
    /\ \E p \in PatInputs, v \in PatValues :
         last' = [op |-> "match", pat |-> p, val |-> v, res |-> Match(p, v)]
    /\ UNCHANGED <<methods, log>>

NextPat == MatchStep

SpecPat == Init /\ [][NextPat]_vars

----------------------------------------------------------------------------
(* Vocabulary of the properties *)

Min(a, b) == IF a < b THEN a ELSE b

Range(s) == {s[i] : i \in 1..Len(s)}

\* two registrations name the same dispatch key: the same positional specs
\* and the same keyword specs, whatever the order the keywords were given in
SameKey(a, b) == a.specs = b.specs /\ Range(a.kwspecs) = Range(b.kwspecs)

\* the registrations that introduced a new dispatch key
FirstInsertions == {i \in 1..Len(log) : \A j \in 1..(i - 1) : ~SameKey(log[j], log[i])}

\* the last registration made under the key of registration i
LatestOf(i) ==
    CHOOSE j \in 1..Len(log) :
        /\ SameKey(log[j], log[i])
        /\ \A k \in (j + 1)..Len(log) : ~SameKey(log[k], log[i])

\* pattern p succeeds on value x: a pattern of patmat returns a derived value,
\* whatever it is, instead of raising MatchFailure; a predicate of
\* multimethods.py answers True
Succeeds(p, x) ==
    LET r == Match(p, x) IN
    /\ r.st = "ok"
    /\ p.cls = "multimethods.Type" => r.val = BoolV(TRUE)

\* the entry under key accepts the call: the patterns of the first
\* min(#args, #specs) positions and of all keyword specs succeed
EntryMatches(key, args, kwargs) ==
    /\ \A i \in 1..Min(Len(args), Len(key[1])) : Succeeds(key[1][i], args[i])
    /\ \A i \in 1..Len(key[2]) :
         /\ HasKw(kwargs, key[2][i][1])
         /\ Succeeds(key[2][i][2], KwVal(kwargs, key[2][i][1]))

Matching == {i \in 1..Len(methods) : EntryMatches(methods[i].key, last.args, last.kwargs)}

FirstMatching == CHOOSE i \in Matching : \A j \in Matching : i <= j

\* the value the pattern p derives from x; a multimethods.Type predicate
\* derives its input unchanged
Derived(p, x) == IF p.cls = "multimethods.Type" THEN x ELSE Match(p, x).val

----------------------------------------------------------------------------
(* Properties *)

\* C1: the registry lists the dispatch keys in the order of their first
\* insertion, each with the implementation most recently registered under it
\* (re-registering a key replaces in place), and a call never invokes an
\* implementation that a later registration of the same key has replaced.
C1_ReplaceInPlace ==
    /\ Len(methods) = Cardinality(FirstInsertions)
    /\ \A i \in FirstInsertions :
         LET pos == Cardinality({j \in FirstInsertions : j <= i}) IN
         /\ methods[pos].key[1] = log[i].specs
         /\ Range(methods[pos].key[2]) = Range(log[i].kwspecs)
         /\ methods[pos].value = log[LatestOf(i)].method
    /\ (last.op = "call" /\ last.res.st = "return") =>
         LatestOf(last.res.impl) = last.res.impl

\* C1 witness: a key was registered, another key after it, then the first key
\* again; the registry still lists the first key first and a call ran the
\* implementation of the third registration.
C1_Witness ==
    /\ Len(log) = 3
    /\ SameKey(log[1], log[3])
    /\ ~SameKey(log[1], log[2])
    /\ Len(methods) = 2
    /\ methods[1].key[1] = log[1].specs
    /\ methods[1].value = 3
    /\ last.op = "call"
    /\ last.res.st = "return"
    /\ last.res.impl = 3

\* C2: a call matched by several registered entries returns the result of the
\* earliest-registered matching entry.
C2_EarliestMatchReturned ==
    (last.op = "call" /\ Cardinality(Matching) >= 2) =>
        /\ last.res.st = "return"
        /\ last.res.impl = methods[FirstMatching].value

\* C3: a call that no registered entry matches raises DispatchFailure carrying
\* the generic's name and the call's positional and keyword arguments.
C3_NoMatchRaisesDispatchFailure ==
    (last.op = "call" /\ Matching = {}) =>
        /\ last.res.st = "raise"
        /\ last.res.exc = "DispatchFailure"
        /\ last.res.generic = GenericName
        /\ last.res.args = last.args
        /\ last.res.kwargs = last.kwargs

\* C4: a MatchFailure raised by a pattern never escapes a call of the
\* multimethod.
C4_MatchFailureNeverEscapes ==
    last.op = "call" => last.res.exc # "MatchFailure"

\* C5: when an entry declares a keyword spec for a name the call does not
\* supply, the entry is an ordinary non-match and the missing keyword raises
\* no error of its own.
C5_MissingKeywordIsNonMatch ==
    (/\ last.op = "call"
     /\ \E i \in 1..Len(methods) : \E j \in 1..Len(methods[i].key[2]) :
            ~HasKw(last.kwargs, methods[i].key[2][j][1]))
        => last.res.exc # "KeyError"

\* C6: get_method on a positional-spec tuple returns an implementation
\* registered with exactly these positional specs, and returns None only when
\* no registration used them.
C6_LookupByPositionalSpecs ==
    (last.op = "get" /\ last.q.shape = "specs") =>
        IF \E i \in 1..Len(log) : log[i].specs = last.q.specs
        THEN last.res # 0 /\ log[last.res].specs = last.q.specs
        ELSE last.res = 0

\* C7: Key, Keys, Attr and Attrs either return the looked-up value(s) or fail
\* with MatchFailure; no lookup error leaves the pattern.
C7_LookupErrorsBecomeMatchFailure ==
    (/\ last.op = "match"
     /\ last.pat.cls \in {"patmat.Key", "patmat.Keys", "patmat.Attr", "patmat.Attrs"})
        => (last.res.st = "ok" \/ last.res.exc = "MatchFailure")

\* C8: OneOf(p1..pn) returns the value unchanged iff exactly one subpattern
\* succeeds on it, and fails with MatchFailure otherwise.
C8_OneOfExactlyOne ==
    (last.op = "match" /\ last.pat.cls = "patmat.OneOf") =>
        LET hits == {i \in 1..Len(last.pat.subs) :
                        Truthy(patmat_ismatch(last.val, last.pat.subs[i]).val)} IN
        IF Cardinality(hits) = 1
        THEN last.res.st = "ok" /\ last.res.val = last.val
        ELSE last.res.st = "raise" /\ last.res.exc = "MatchFailure"

\* C9: the implementation of the selected entry is invoked on the transformed
\* arguments: every matched argument replaced by its pattern's derived value.
C9_ImplementationGetsDerivedValues ==
    (last.op = "call" /\ last.res.st = "return") =>
        LET key == (CHOOSE e \in Range(methods) : e.value = last.res.impl).key IN
        /\ Len(last.res.args) = Len(last.args)
        /\ \A i \in 1..Len(last.args) :
             last.res.args[i] =
                IF i <= Len(key[1]) THEN Derived(key[1][i], last.args[i])
                ELSE last.args[i]
        /\ \A i \in 1..Len(key[2]) :
             <<key[2][i][1], Derived(key[2][i][2], KwVal(last.kwargs, key[2][i][1]))>>
                \in last.res.kwargs

\* C10: positional specs are paired with arguments by position, surplus
\* arguments and surplus spec tokens are not evaluated, and an entry matches
\* iff the patterns for the first min(#args, #specs) positions and for all
\* keyword specs succeed: a call that returns ran the first entry of that
\* kind, and a call is reported as unmatched only when there is none.
C10_PairingByPosition ==
    last.op = "call" =>
        /\ last.res.st = "return" =>
             /\ Matching # {}
             /\ methods[FirstMatching].value = last.res.impl
        /\ last.res.exc = "DispatchFailure" => Matching = {}

====
